---- MODULE Spec2Model ----
(***************************************************************************)
(* Model of files.py (get_folders / build_directory_tree, create_folder,   *)
(* copy_file) and of generate_from_template.execute.                       *)
(*                                                                         *)
(* Python strings are modelled as sequences of one-character strings, so   *)
(* that path concatenation and os.path.split are computed, not assumed.    *)
(* A Python dict is modelled as a sequence of <<key, value>> pairs in      *)
(* insertion order; the mapping returned by get_folders is modelled as the *)
(* set of its <<key, value>> items.                                        *)
(***************************************************************************)
EXTENDS Integers, Sequences, FiniteSets, TLC

VARIABLES
    drive,       \* the remote folder store: sequence of records id/name/parents
    op,          \* the top-level call in progress ("none" before it starts)
    args,        \* arguments of copy_file (folder) and of create_folder (mkFolder, mkParent)
    pc,          \* position of the running code
    stack,       \* return labels of the calls in progress
    exc,         \* exception that left the top-level call ("none" if none)
    result,      \* value returned by the top-level call
    res,         \* build_directory_tree: res['files'] of the current listing
    parent_ids,  \* build_directory_tree: parent_ids
    tree,        \* build_directory_tree: tree
    remainder,   \* build_directory_tree: remainder
    removals,    \* build_directory_tree: removals
    retval,      \* value returned by the last completed call
    parent_id,   \* create_folder: parent_id
    folders,     \* copy_file: folders
    body,        \* copy_file: body['parents'] (<<>> while the key is absent)
    new_doc_id,  \* execute: new_doc_id
    log,         \* history: remote requests issued, in order
    mkCalls,     \* history: create_folder calls made by copy_file, <<folder, parent_folder>>
    builds       \* history: the files given to and the mapping returned by every
                 \* build_directory_tree that returned

vars == <<drive, op, args, pc, stack, exc, result, res, parent_ids, tree, remainder,
          removals, retval, parent_id, folders, body, new_doc_id, log, mkCalls, builds>>

----------------------------------------------------------------------------
(* Bounds of the model *)

\* records in the initial drive of the resolver runs
MaxRecords == 3
\* records of the initial drive that list a second parent
MaxExtraParents == 1
\* records in the initial drive of the program runs
MaxFolders == 1
\* get_folders calls one caller makes in a row
MaxCalls == 2
\* remote calls that fail with HttpError in one run
MaxFailures == 1

----------------------------------------------------------------------------
(* Strings *)

Slash == <<"/">>
EmptyStr == <<>>
\* the id the Drive gives to its root folder, and an id that is no folder at all
RootId == <<"r">>
GhostId == <<"g">>
\* the id the remote create mints
NewId == <<"n">>
\* the id the remote copy mints
NewFileId == <<"f">>

Digits == <<"1", "2", "3", "4", "5">>
RecordId(i) == <<Digits[i]>>
Names == {<<"a">>, <<"b">>}

SeqContains(s, x) == \E i \in 1..Len(s) : s[i] = x

\* list.remove(x) on a list that holds x: drops the first occurrence
RemoveFirst(s, x) ==
    LET i == CHOOSE j \in 1..Len(s) : s[j] = x /\ \A k \in 1..(j-1) : s[k] # x
    IN  SubSeq(s, 1, i-1) \o SubSeq(s, i+1, Len(s))

----------------------------------------------------------------------------
(* Python dict, insertion ordered *)

DictHas(d, k) == \E i \in 1..Len(d) : d[i][1] = k
DictGet(d, k) == d[CHOOSE i \in 1..Len(d) : d[i][1] = k][2]
DictSet(d, k, v) ==
    IF DictHas(d, k)
    THEN [i \in 1..Len(d) |-> IF d[i][1] = k THEN <<k, v>> ELSE d[i]]
    ELSE Append(d, <<k, v>>)

\* the returned mapping: a set of <<key, value>> items with one value per key
MapHas(m, k) == \E e \in m : e[1] = k
MapGet(m, k) == (CHOOSE e \in m : e[1] = k)[2]

----------------------------------------------------------------------------
(* build_directory_tree: the pure parts *)

\* lines 93-98: every parent id of every file, in order of first appearance
RECURSIVE AddParents(_, _)
AddParents(acc, ps) ==
    IF ps = <<>> THEN acc
    ELSE AddParents(IF SeqContains(acc, Head(ps)) THEN acc ELSE Append(acc, Head(ps)),
                    Tail(ps))

RECURSIVE CollectParentIdsAll(_, _)
CollectParentIdsAll(acc, files) ==
    IF files = <<>> THEN acc
    ELSE CollectParentIdsAll(AddParents(acc, Head(files).parents), Tail(files))

CollectParentIds(files) == CollectParentIdsAll(<<>>, files)

\* line 100
CollectIds(files) == [i \in 1..Len(files) |-> files[i].id]

\* lines 102-108: root is tree['/'] so far ('' at first); err when a second,
\* different parent id that is no file id is met
RECURSIVE FindRoot(_, _, _)
FindRoot(pids, ids, root) ==
    IF pids = <<>> THEN [err |-> FALSE, root |-> root]
    ELSE IF SeqContains(ids, Head(pids)) THEN FindRoot(Tail(pids), ids, root)
    ELSE IF Len(root) = 0 THEN FindRoot(Tail(pids), ids, Head(pids))
    ELSE IF root # Head(pids) THEN [err |-> TRUE, root |-> root]
    ELSE FindRoot(Tail(pids), ids, root)

\* line 116: the test made on each file of the first pass
UnderRoot(file, rootId) == file.parents[1] = rootId

\* lines 115-118: the first pass over remainder; st is [tree, removals]
RECURSIVE FirstPass(_, _)
FirstPass(st, files) ==
    IF files = <<>> THEN st
    ELSE LET file == Head(files) IN
         FirstPass(IF UnderRoot(file, DictGet(st.tree, Slash))
                   THEN [tree |-> DictSet(st.tree, file.id, Slash \o file.name),
                         removals |-> Append(st.removals, file)]
                   ELSE st,
                   Tail(files))

\* line 126: the parent ids tried for one file in a pass of the while loop
ParentsTried(file) == file.parents

\* lines 126-129: one file of a pass of the while loop
RECURSIVE TryParents(_, _, _)
TryParents(st, file, ps) ==
    IF ps = <<>> THEN st
    ELSE TryParents(IF DictHas(st.tree, Head(ps))
                    THEN [tree |-> DictSet(st.tree, file.id,
                                           DictGet(st.tree, Head(ps)) \o Slash \o file.name),
                          removals |-> Append(st.removals, file)]
                    ELSE st,
                    file, Tail(ps))

\* lines 125-129: one pass of the while loop over remainder
RECURSIVE WhilePass(_, _)
WhilePass(st, files) ==
    IF files = <<>> THEN st
    ELSE WhilePass(TryParents(st, Head(files), ParentsTried(Head(files))), Tail(files))

\* lines 120-121 and 131-132: remainder.remove(file) for each file of removals;
\* err when a file is no longer in remainder (list.remove raises ValueError)
RECURSIVE RemoveAll(_, _)
RemoveAll(rem, rems) ==
    IF rems = <<>> THEN [err |-> FALSE, remainder |-> rem]
    ELSE IF ~SeqContains(rem, Head(rems)) THEN [err |-> TRUE, remainder |-> rem]
    ELSE RemoveAll(RemoveFirst(rem, Head(rems)), Tail(rems))

\* line 134: {v: k for k, v in tree.items()}; a later item overwrites an earlier one
Invert(t) ==
    {<<t[i][2], t[i][1]>> : i \in {j \in 1..Len(t) : \A k \in (j+1)..Len(t) : t[k][2] # t[j][2]}}

----------------------------------------------------------------------------
(* Values passed between the functions: a string, a mapping, or None *)

StrVal(x) == [none |-> FALSE, map |-> {}, str |-> x]
MapVal(m) == [none |-> FALSE, map |-> m, str |-> EmptyStr]
NoneVal == [none |-> TRUE, map |-> {}, str |-> EmptyStr]
\* a local variable not assigned yet
Unset == [none |-> TRUE, map |-> {}, str |-> <<"unset">>]

\* os.path.split as copy_file uses it (line 227): <<head, tail>> around the last
\* slash, the head without its trailing slashes unless it is slashes only
RECURSIVE RStripSlash(_)
RStripSlash(x) ==
    IF x # <<>> /\ x[Len(x)] = "/" THEN RStripSlash(SubSeq(x, 1, Len(x) - 1)) ELSE x

OsPathSplit(x) ==
    LET slashes == {j \in 1..Len(x) : x[j] = "/"}
        i == IF slashes = {} THEN 0 ELSE CHOOSE j \in slashes : \A k \in slashes : k <= j
        head == SubSeq(x, 1, i)
        tail == SubSeq(x, i + 1, Len(x))
    IN  <<IF head # <<>> /\ RStripSlash(head) # <<>> THEN RStripSlash(head) ELSE head, tail>>

----------------------------------------------------------------------------
(* Inputs *)

\* parent lists a record of a drive of n records may carry
ParentAtoms(n) == {RootId, GhostId} \cup {RecordId(i) : i \in 1..n}
ParentLists(n) ==
    {<<x>> : x \in ParentAtoms(n)}
      \cup {<<xy[1], xy[2]>> : xy \in {z \in ParentAtoms(n) \X ParentAtoms(n) : z[1] # z[2]}}

\* the drives of n folders: ids are unique, no folder lists itself as a parent,
\* at most MaxExtraParents folders list a second parent
Drives(n) ==
    {[i \in 1..n |-> [id |-> RecordId(i), name |-> f[i][1], parents |-> f[i][2]]] :
        f \in {g \in [1..n -> Names \X ParentLists(n)] :
                 /\ \A i \in 1..n : ~SeqContains(g[i][2], RecordId(i))
                 /\ Cardinality({i \in 1..n : Len(g[i][2]) > 1}) <= MaxExtraParents}}

DrivesUpTo(max) == UNION {Drives(n) : n \in 0..max}

\* folder paths the callers pass
FolderArgs ==
    {Slash, <<"/", "a">>, <<"/", "b">>, <<"/", "a", "/", "b">>, <<"/", "b", "/", "a">>,
     <<"/", "a", "/">>}

\* the orders in which the remote listing may return the folders
Listings(d) == {[i \in 1..Len(d) |-> d[q[i]]] : q \in Permutations(1..Len(d))}

Failures == Cardinality({i \in 1..Len(log) : ~log[i].ok})
\* a remote call may succeed, or fail while the run's failure budget lasts
Outcomes == IF Failures < MaxFailures THEN {TRUE, FALSE} ELSE {TRUE}

Request(call, ok, name, parents) ==
    [call |-> call, ok |-> ok, name |-> name, parents |-> parents]

----------------------------------------------------------------------------
(* The state before any call *)

InitLocals ==
    /\ op = "none"
    /\ args = [folder |-> NoneVal, mkFolder |-> EmptyStr, mkParent |-> EmptyStr]
    /\ pc = "idle"
    /\ stack = <<>>
    /\ exc = "none"
    /\ result = Unset
    /\ res = <<>>
    /\ parent_ids = <<>>
    /\ tree = <<>>
    /\ remainder = <<>>
    /\ removals = <<>>
    /\ retval = Unset
    /\ parent_id = EmptyStr
    /\ folders = Unset
    /\ body = <<>>
    /\ new_doc_id = Unset
    /\ log = <<>>
    /\ mkCalls = <<>>
    /\ builds = <<>>

Init == drive \in DrivesUpTo(MaxFolders) /\ InitLocals

InitTree == drive \in DrivesUpTo(MaxRecords) /\ InitLocals

----------------------------------------------------------------------------
(* Returning and raising *)

\* a call returns v to the code that made it; the top-level call's value is the result
Return(v) ==
    /\ retval' = v
    /\ stack' = Tail(stack)
    /\ IF Head(stack) = "top"
       THEN pc' = "returned" /\ result' = v
       ELSE pc' = Head(stack) /\ UNCHANGED result
    /\ UNCHANGED exc

\* an exception no handler of the program catches ends the top-level call
Raise(kind) ==
    /\ pc' = "raised"
    /\ exc' = kind
    /\ UNCHANGED <<stack, result, retval>>

----------------------------------------------------------------------------
(* get_folders *)

\* a caller invokes get_folders()
CallGetFolders ==
    /\ IF pc = "idle" THEN TRUE
       ELSE pc = "returned" /\ op = "get_folders" /\ Len(builds) < MaxCalls
    /\ op' = "get_folders"
    /\ stack' = <<"top">>
    /\ pc' = "gf_list"
    /\ UNCHANGED <<drive, args, exc, result, res, parent_ids, tree, remainder, removals,
                   retval, parent_id, folders, body, new_doc_id, log, mkCalls, builds>>

\* lines 137-147 and 151-153, then lines 92-100: the remote listing; on HttpError
\* get_folders returns None, otherwise build_directory_tree starts on the listing
GfList ==
    /\ pc = "gf_list"
    /\ \E ok \in Outcomes : \E files \in Listings(drive) :
         /\ log' = Append(log, Request("list", ok, EmptyStr, <<>>))
         /\ IF ok
            THEN /\ res' = files
                 /\ tree' = <<<<Slash, EmptyStr>>>>
                 /\ parent_ids' = CollectParentIds(files)
                 /\ pc' = "bt_root"
                 /\ UNCHANGED <<stack, exc, result, retval>>
            ELSE /\ Return(NoneVal)
                 /\ UNCHANGED <<res, tree, parent_ids>>
    /\ UNCHANGED <<drive, op, args, remainder, removals, parent_id, folders, body,
                   new_doc_id, mkCalls, builds>>

\* lines 102-111: the root id is the parent id that is no file id
BtRoot ==
    /\ pc = "bt_root"
    /\ LET r == FindRoot(parent_ids, CollectIds(res), DictGet(tree, Slash)) IN
         /\ tree' = DictSet(tree, Slash, r.root)
         /\ IF r.err
            THEN Raise("ValueError") /\ UNCHANGED parent_ids
            ELSE IF ~SeqContains(parent_ids, r.root)
            THEN Raise("ValueError") /\ UNCHANGED parent_ids
            ELSE /\ parent_ids' = RemoveFirst(parent_ids, r.root)
                 /\ pc' = "bt_first"
                 /\ UNCHANGED <<stack, exc, result, retval>>
    /\ UNCHANGED <<drive, op, args, res, remainder, removals, parent_id, folders, body,
                   new_doc_id, log, mkCalls, builds>>

\* lines 113-121: the files directly under the root; remainder is a copy of
\* result['files'], the listing that was passed as res
BtFirst ==
    /\ pc = "bt_first"
    /\ LET st == FirstPass([tree |-> tree, removals |-> <<>>], res)
           rm == RemoveAll(res, st.removals)
       IN  /\ tree' = st.tree
           /\ removals' = st.removals
           /\ remainder' = rm.remainder
           /\ IF rm.err
              THEN Raise("ValueError")
              ELSE pc' = "bt_while" /\ UNCHANGED <<stack, exc, result, retval>>
    /\ UNCHANGED <<drive, op, args, res, parent_ids, parent_id, folders, body,
                   new_doc_id, log, mkCalls, builds>>

\* lines 123-132: one pass of the while loop
BtPass ==
    /\ pc = "bt_while"
    /\ Len(remainder) > 0
    /\ LET st == WhilePass([tree |-> tree, removals |-> <<>>], remainder)
           rm == RemoveAll(remainder, st.removals)
       IN  /\ tree' = st.tree
           /\ removals' = st.removals
           /\ remainder' = rm.remainder
           /\ IF rm.err
              THEN Raise("ValueError")
              ELSE pc' = "bt_while" /\ UNCHANGED <<stack, exc, result, retval>>
    /\ UNCHANGED <<drive, op, args, res, parent_ids, parent_id, folders, body,
                   new_doc_id, log, mkCalls, builds>>

\* lines 123, 134 and 147-149: the loop ends and the inverted tree is returned;
\* the locals of build_directory_tree end with the call
BtReturn ==
    /\ pc = "bt_while"
    /\ Len(remainder) = 0
    /\ builds' = Append(builds, [files |-> {res[i] : i \in 1..Len(res)},
                                 map |-> Invert(tree)])
    /\ Return(MapVal(Invert(tree)))
    /\ res' = <<>>
    /\ parent_ids' = <<>>
    /\ tree' = <<>>
    /\ remainder' = <<>>
    /\ removals' = <<>>
    /\ UNCHANGED <<drive, op, args, parent_id, folders, body, new_doc_id, log, mkCalls>>

NextTree == CallGetFolders \/ GfList \/ BtRoot \/ BtFirst \/ BtPass \/ BtReturn

SpecTree == InitTree /\ [][NextTree]_vars

----------------------------------------------------------------------------
(* create_folder *)

\* a caller invokes create_folder(folder, parent_folder); line 176 calls get_folders
CallCreateFolder ==
    /\ pc = "idle"
    /\ \E name \in Names \cup {EmptyStr} : \E parent \in FolderArgs :
         args' = [args EXCEPT !.mkFolder = name, !.mkParent = parent]
    /\ op' = "create_folder"
    /\ stack' = <<"mk_have", "top">>
    /\ pc' = "gf_list"
    /\ UNCHANGED <<drive, exc, result, res, parent_ids, tree, remainder, removals,
                   retval, parent_id, folders, body, new_doc_id, log, mkCalls, builds>>

\* lines 176-181: the parent path is looked up in the mapping get_folders returned;
\* 'in' on None raises TypeError, a missing parent raises ValueError
MkHave ==
    /\ pc = "mk_have"
    /\ IF retval.none
       THEN Raise("TypeError") /\ UNCHANGED parent_id
       ELSE IF MapHas(retval.map, args.mkParent)
       THEN /\ parent_id' = MapGet(retval.map, args.mkParent)
            /\ pc' = "mk_create"
            /\ UNCHANGED <<stack, exc, result, retval>>
       ELSE Raise("ValueError") /\ UNCHANGED parent_id
    /\ UNCHANGED <<drive, op, args, res, parent_ids, tree, remainder, removals, folders,
                   body, new_doc_id, log, mkCalls, builds>>

\* lines 183-194: the remote create; on HttpError create_folder returns None
MkCreate ==
    /\ pc = "mk_create"
    /\ \E ok \in Outcomes :
         /\ log' = Append(log, Request("create", ok, args.mkFolder, <<parent_id>>))
         /\ IF ok
            THEN /\ drive' = Append(drive, [id |-> NewId, name |-> args.mkFolder,
                                            parents |-> <<parent_id>>])
                 /\ Return(StrVal(NewId))
            ELSE /\ Return(NoneVal)
                 /\ UNCHANGED drive
    /\ UNCHANGED <<op, args, res, parent_ids, tree, remainder, removals, parent_id,
                   folders, body, new_doc_id, mkCalls, builds>>

----------------------------------------------------------------------------
(* copy_file *)

\* a caller invokes copy_file(template, new_file_name, folder); line 219 calls
\* get_folders
CallCopyFile ==
    /\ pc = "idle"
    /\ \E f \in {NoneVal} \cup {StrVal(x) : x \in FolderArgs} :
         args' = [args EXCEPT !.folder = f]
    /\ op' = "copy_file"
    /\ stack' = <<"cf_have1", "top">>
    /\ pc' = "gf_list"
    /\ UNCHANGED <<drive, exc, result, res, parent_ids, tree, remainder, removals,
                   retval, parent_id, folders, body, new_doc_id, log, mkCalls, builds>>

\* lines 219-228: with a folder that the mapping lacks, create_folder is called
\* with the two parts of the path; 'in' on None raises TypeError
CfHave1 ==
    /\ pc = "cf_have1"
    /\ folders' = retval
    /\ IF args.folder.none
       THEN /\ pc' = "cf_copy"
            /\ UNCHANGED <<args, stack, exc, result, retval, mkCalls>>
       ELSE IF retval.none
       THEN Raise("TypeError") /\ UNCHANGED <<args, mkCalls>>
       ELSE IF MapHas(retval.map, args.folder.str)
       THEN /\ pc' = "cf_parents"
            /\ UNCHANGED <<args, stack, exc, result, retval, mkCalls>>
       ELSE LET parts == OsPathSplit(args.folder.str) IN
            /\ args' = [args EXCEPT !.mkFolder = parts[2], !.mkParent = parts[1]]
            /\ mkCalls' = Append(mkCalls, <<parts[2], parts[1]>>)
            /\ stack' = <<"mk_have", "cf_created">> \o stack
            /\ pc' = "gf_list"
            /\ UNCHANGED <<exc, result, retval>>
    /\ UNCHANGED <<drive, op, res, parent_ids, tree, remainder, removals, parent_id,
                   body, new_doc_id, log, builds>>

\* CfCreated without line 229: the mapping fetched before the creation is kept
CfCreatedStale ==
    /\ pc = "cf_created"
    /\ pc' = "cf_parents"
    /\ UNCHANGED <<drive, op, args, stack, exc, result, res, parent_ids, tree, remainder,
                   removals, retval, parent_id, folders, body, new_doc_id, log, mkCalls,
                   builds>>

\* lines 228-229: create_folder has returned (its value is dropped) and
\* get_folders is called again
CfCreated ==
    /\ pc = "cf_created"
    /\ stack' = <<"cf_have2">> \o stack
    /\ pc' = "gf_list"
    /\ UNCHANGED <<drive, op, args, exc, result, res, parent_ids, tree, remainder,
                   removals, retval, parent_id, folders, body, new_doc_id, log, mkCalls,
                   builds>>

\* line 229: folders = get_folders()
CfHave2 ==
    /\ pc = "cf_have2"
    /\ folders' = retval
    /\ pc' = "cf_parents"
    /\ UNCHANGED <<drive, op, args, stack, exc, result, res, parent_ids, tree, remainder,
                   removals, retval, parent_id, body, new_doc_id, log, mkCalls, builds>>

\* line 231: body['parents'] = [folders[folder]]; subscripting None raises
\* TypeError, a missing key raises KeyError
CfParents ==
    /\ pc = "cf_parents"
    /\ IF folders.none
       THEN Raise("TypeError") /\ UNCHANGED body
       ELSE IF ~MapHas(folders.map, args.folder.str)
       THEN Raise("KeyError") /\ UNCHANGED body
       ELSE /\ body' = <<MapGet(folders.map, args.folder.str)>>
            /\ pc' = "cf_copy"
            /\ UNCHANGED <<stack, exc, result, retval>>
    /\ UNCHANGED <<drive, op, args, res, parent_ids, tree, remainder, removals, parent_id,
                   folders, new_doc_id, log, mkCalls, builds>>

\* lines 233-240: the remote copy; on HttpError copy_file returns None
CfCopy ==
    /\ pc = "cf_copy"
    /\ \E ok \in Outcomes :
         /\ log' = Append(log, Request("copy", ok, EmptyStr, body))
         /\ Return(IF ok THEN StrVal(NewFileId) ELSE NoneVal)
    /\ UNCHANGED <<drive, op, args, res, parent_ids, tree, remainder, removals, parent_id,
                   folders, body, new_doc_id, mkCalls, builds>>

----------------------------------------------------------------------------
(* generate_from_template.execute *)

\* lines 82-87: folder None stands for the root path '/'; copy_file is called
CallExecute ==
    /\ pc = "idle"
    /\ \E f \in {NoneVal} \cup {StrVal(x) : x \in FolderArgs} :
         args' = [args EXCEPT !.folder = IF f.none THEN StrVal(Slash) ELSE f]
    /\ op' = "execute"
    /\ stack' = <<"cf_have1", "ex_batch">>
    /\ pc' = "gf_list"
    /\ UNCHANGED <<drive, exc, result, res, parent_ids, tree, remainder, removals,
                   retval, parent_id, folders, body, new_doc_id, log, mkCalls, builds>>

\* lines 87-97: batchUpdate on the id copy_file returned; its HttpError is not caught
ExBatch ==
    /\ pc = "ex_batch"
    /\ new_doc_id' = retval
    /\ \E ok \in Outcomes :
         /\ log' = Append(log, Request("batchUpdate", ok, retval.str, <<>>))
         /\ IF ok
            THEN /\ pc' = "returned"
                 /\ result' = StrVal(<<"u">>)
                 /\ UNCHANGED <<stack, exc, retval>>
            ELSE Raise("HttpError")
    /\ UNCHANGED <<drive, op, args, res, parent_ids, tree, remainder, removals, parent_id,
                   folders, body, mkCalls, builds>>

Next ==
    \/ CallGetFolders \/ GfList \/ BtRoot \/ BtFirst \/ BtPass \/ BtReturn
    \/ CallCreateFolder \/ MkHave \/ MkCreate
    \/ CallCopyFile \/ CfHave1 \/ CfCreated \/ CfHave2 \/ CfParents \/ CfCopy
    \/ CallExecute \/ ExBatch

Spec == Init /\ [][Next]_vars

----------------------------------------------------------------------------
(* What the claims speak of *)

\* the records of the drive, their ids, and the parent ids that are no record id
Records == {drive[i] : i \in 1..Len(drive)}
RecordIds == {r.id : r \in Records}
RecordOf(id) == CHOOSE r \in Records : r.id = id
FirstRoots == {r.parents[1] : r \in Records} \ RecordIds
AllRoots == UNION {{r.parents[k] : k \in 1..Len(r.parents)} : r \in Records} \ RecordIds

\* following first-listed parents from id leads to root
RECURSIVE Climbs(_, _, _)
Climbs(id, root, fuel) ==
    IF id = root THEN TRUE
    ELSE IF fuel = 0 \/ id \notin RecordIds THEN FALSE
    ELSE Climbs(RecordOf(id).parents[1], root, fuel - 1)

NoDuplicateSiblings ==
    \A r1 \in Records : \A r2 \in Records :
        r1.id # r2.id => ~(r1.name = r2.name /\ r1.parents[1] = r2.parents[1])

\* the first-listed parent pointers form a single-rooted tree over the records
FirstParentTree ==
    /\ Cardinality(FirstRoots) = 1
    /\ Cardinality(AllRoots) = 1
    /\ \A r \in Records : \A root \in FirstRoots : Climbs(r.id, root, Len(drive))
    /\ NoDuplicateSiblings

\* a cycle of first-listed parents beside a single root that has folders under it
CycleBesideRoot ==
    /\ Cardinality(AllRoots) = 1
    /\ \E r \in Records : r.parents[1] \in AllRoots
    /\ \E r \in Records : Climbs(r.parents[1], r.id, Len(drive))

\* a top-level get_folders call has returned a mapping
Resolved == op = "get_folders" /\ pc = "returned" /\ ~result.none

\* the path under which a returned mapping lists an id
HasPath(m, id) == \E e \in m : e[2] = id
PathOf(m, id) == (CHOOSE e \in m : e[2] = id)[1]

Terminated == pc \in {"returned", "raised"}
FailedRequests == {i \in 1..Len(log) : ~log[i].ok}
Requests(call) == {i \in 1..Len(log) : log[i].call = call}

----------------------------------------------------------------------------
(* Claims *)

\* C1: for records whose first-listed parents form a single-rooted tree, in any
\* listing order, build_directory_tree raises nothing and the mapping it returns
\* has an entry for every record id.
C1_EveryRecordResolved ==
    (op = "get_folders" /\ FirstParentTree) =>
        /\ pc # "raised"
        /\ Resolved => \A r \in Records : HasPath(result.map, r.id)

\* C2: with a parent-pointer cycle beside a valid root, the while loop is never
\* back at its head with files pending after a pass that resolved nothing:
\* such a pass ends in an error.
C2_StallEndsInError ==
    (op = "get_folders" /\ CycleBesideRoot) =>
        ~(pc = "bt_while" /\ Len(remainder) > 0 /\ removals = <<>>)

\* C3: with two records of the same name under the same parent no mapping is
\* returned, and every returned mapping has one entry per record plus the root.
C3_NoPartialTree ==
    Resolved =>
        /\ NoDuplicateSiblings
        /\ Cardinality(result.map) = Len(drive) + 1
        /\ \A r \in Records : HasPath(result.map, r.id)

\* C4: a returned mapping has the key "/" and maps it to the root id, the parent
\* id that is no record id.
C4_RootUnderSlash ==
    Resolved =>
        /\ MapHas(result.map, Slash)
        /\ MapGet(result.map, Slash) \in AllRoots

\* C5: create_folder with parent_folder '/' on a drive whose listing resolved
\* does not raise the 'parent folder does not exist' ValueError and issues the
\* remote create with parents = [root id].
C5_CreateUnderRoot ==
    (op = "create_folder" /\ args.mkParent = Slash /\ Len(builds) > 0) =>
        /\ ~(pc = "raised" /\ exc = "ValueError")
        /\ \A i \in Requests("create") :
              Len(log[i].parents) = 1 /\ log[i].parents[1] \in AllRoots
        /\ pc = "returned" /\ FailedRequests = {} => result = StrVal(NewId)

\* C6: root detection looks at first-listed parents only: resolution raises
\* exactly when the first-listed parent ids that are no record id are not
\* exactly one.
C6_FirstParentRoot ==
    op = "get_folders" =>
        /\ pc = "raised" => Cardinality(FirstRoots) # 1
        /\ Cardinality(FirstRoots) # 1 => (pc \notin {"bt_first", "bt_while"} /\ ~Resolved)

\* C7: in a returned mapping every record's path is "/" + name under the root
\* and otherwise the path of its first-listed parent + "/" + name, and a record
\* listing a second parent does not make resolution fail.
C7_PathsFollowFirstParent ==
    (op = "get_folders" /\ FirstParentTree) =>
        /\ pc # "raised"
        /\ Resolved =>
             \A r \in Records :
                /\ HasPath(result.map, r.id)
                /\ IF r.parents[1] \in FirstRoots
                   THEN PathOf(result.map, r.id) = Slash \o r.name
                   ELSE /\ HasPath(result.map, r.parents[1])
                        /\ PathOf(result.map, r.id)
                             = PathOf(result.map, r.parents[1]) \o Slash \o r.name

\* C8: build_directory_tree gives the same outcome on a record list and on any
\* permutation of it: the same mapping, or an error both times.
C8_OrderIndependent ==
    op = "get_folders" =>
        /\ \A i \in 1..Len(builds) : \A j \in 1..Len(builds) :
              builds[i].files = builds[j].files => builds[i].map = builds[j].map
        /\ Len(builds) > 0 => pc # "raised"

\* C9: copy_file returns the new file's id when no remote call fails, returns
\* None when a remote call it depends on fails, and no remote failure leaves it
\* as an exception.
C9_NoneOnRemoteFailure ==
    (op = "copy_file" /\ Terminated) =>
        /\ FailedRequests # {} => (pc = "returned" /\ result.none)
        /\ (pc = "returned" /\ FailedRequests = {}) => result = StrVal(NewFileId)

\* copy_file is running (called directly or by execute) with a folder path
CopyWithFolder == op \in {"copy_file", "execute"} /\ ~args.folder.none

\* C10: in copy_file with a folder path: if the path is in the first resolution
\* no folder is created and no further listing is made; otherwise create_folder
\* is called once, with the last component of the path under its parent path,
\* the folders are listed and resolved again after create_folder's request, and
\* the mapping consulted for body['parents'] and the id sent in the copy request
\* come from that fresh resolution of the drive as it is after the creation.
C10_FreshResolutionAfterCreate ==
    (CopyWithFolder /\ Len(builds) > 0) =>
        LET path == args.folder.str
            fresh == builds[Len(builds)]
        IN  /\ MapHas(builds[1].map, path) =>
                 /\ mkCalls = <<>>
                 /\ Requests("create") = {}
                 /\ Len(builds) = 1
                 /\ \A i \in Requests("copy") :
                       log[i].parents = <<MapGet(builds[1].map, path)>>
            /\ (~MapHas(builds[1].map, path) /\ folders # Unset) =>
                 mkCalls = <<<<OsPathSplit(path)[2], OsPathSplit(path)[1]>>>>
            /\ (mkCalls # <<>> /\ pc = "cf_parents") =>
                 /\ Len(log) > 1
                 /\ log[Len(log) - 1].call = "create"
                 /\ log[Len(log)].call = "list"
                 /\ IF log[Len(log)].ok
                    THEN folders = MapVal(fresh.map) /\ fresh.files = Records
                    ELSE folders.none
            /\ mkCalls # <<>> =>
                 \A i \in Requests("copy") :
                    /\ Len(builds) > 2
                    /\ fresh.files = Records
                    /\ MapHas(fresh.map, path)
                    /\ log[i].parents = <<MapGet(fresh.map, path)>>

\* C10 happens: a folder was missing, the remote create made it, and the copy is
\* about to be sent with the new folder's id as parent
C10_Witness ==
    /\ CopyWithFolder
    /\ pc = "cf_copy"
    /\ mkCalls # <<>>
    /\ \E i \in Requests("create") : log[i].ok
    /\ body = <<NewId>>

====
